---- MODULE Spec2Model ----
(***************************************************************************)
(* State-machine model of the two sandbox preludes of oasis:               *)
(*   src/code/prelude.py         pipe transport + workspace guards         *)
(*   src/cmd/sandbox/prelude.py  HTTP callback transport, threads          *)
(* The variable `variant` says which prelude was prepended to the user     *)
(* script; the actions are the operations user code can invoke, plus the   *)
(* steps of the peer (pipe) and of the worker threads (HTTP).              *)
(***************************************************************************)
EXTENDS Integers, Sequences, FiniteSets, TLC

VARIABLES
    variant,        \* "pipe" (src/code/prelude.py) or "http" (src/cmd/sandbox/prelude.py)
    final_result,   \* _final_result
    output_files,   \* _output_files (HTTP variant)
    CALLBACK_URL,   \* _CALLBACK_URL (HTTP variant), "" when not configured
    call_id,        \* _call_id (pipe variant)
    cwd,            \* the process's current working directory
    path,           \* the path the script passes to the guarded functions
    ev,             \* the last operation of user code that completed, with its outcome
    mpc,            \* where the script's only thread is: "idle", "starting", "joining", "reading"
    calls,          \* call_tools_parallel: the argument (a sequence of tool names)
    results,        \* call_tools_parallel (HTTP): the local list `results`
    errors,         \* call_tools_parallel (HTTP): the local list `errors`
    wpc,            \* call_tools_parallel (HTTP): state of each thread
    k,              \* call_tools_parallel (HTTP): index of the start / join loop
    produced,       \* history: the outcome of call_tool inside unit i
    attempted,      \* history: the units whose request went out on the transport
    finished,       \* history: the unit that terminated first (at most one index)
    writes,         \* history: the stores into `results` and `errors`, by unit
    pending,        \* pipe: the request written and not yet answered
    inbound,        \* pipe: lines the peer has written and the script has not read
    peer_closed,    \* pipe: the peer closed its end of the inbound stream
    nwritten,       \* pipe: request lines written to _proto_out
    nread,          \* pipe: readline() calls completed on _proto_in
    issued          \* history (pipe): the correlation ids put in requests, in order

vars == <<variant, final_result, output_files, CALLBACK_URL, call_id, cwd, path, ev, mpc,
          calls, results, errors, wpc, k, produced, attempted, finished, writes, pending,
          inbound,
          peer_closed, nwritten, nread, issued>>

httpLocals == <<calls, results, errors, wpc, k, produced, attempted, finished, writes>>
pipeChan == <<pending, inbound, peer_closed, nwritten, nread, issued>>

----------------------------------------------------------------------------
(* Bounds of the model *)

MaxCalls == 2       \* longest list given to call_tools_parallel
MaxSegs == 3        \* most path segments in a path given to a guard
MaxCallId == 2      \* the script stops issuing pipe requests at this counter value

----------------------------------------------------------------------------
(* JSON-compatible values, as tagged records *)

None == [t |-> "none", v |-> ""]
Absent == [t |-> "absent", v |-> ""]      \* key missing from a dict
Str(s) == [t |-> "str", v |-> s]
Num(s) == [t |-> "num", v |-> s]

\* Python truthiness of a value: `if x`
Truthy(x) ==
    CASE x.t = "none" -> FALSE
      [] x.t = "absent" -> FALSE
      [] x.t = "str" -> x.v # ""
      [] x.t = "num" -> x.v # "0"
      [] OTHER -> TRUE

\* dict.get(key, default)
Get(doc, key, default) == IF doc[key] = Absent THEN default ELSE doc[key]

\* json.loads on a text: the texts of the model that are JSON documents
Parses(s) == s \in {"1", "\"x\""}

JsonLoads(s) ==
    CASE s = "1" -> Num("1")
      [] s = "\"x\"" -> Str("x")

ToolNames == {"file_read", "http_fetch"}

\* Exceptions: class, the message's fixed part, the tool named in it, the text carried
Exc(cls, kind, tool, text) == [cls |-> cls, kind |-> kind, tool |-> tool, text |-> text]
NoExc == Exc("", "", "", "")

Return(v) == [kind |-> "return", val |-> v, err |-> NoExc]
Raise(e) == [kind |-> "raise", val |-> None, err |-> e]

\* A response document: a JSON object with optional keys, or something else
Dict(ty, er, da) == [shape |-> "dict", type |-> ty, error |-> er, data |-> da]
Malformed == [shape |-> "malformed", type |-> Absent, error |-> Absent, data |-> Absent]
NonDict == [shape |-> "nondict", type |-> Absent, error |-> Absent, data |-> Absent]

ErrorFields == {Absent, Str(""), Str("boom")}
DataFields == {Absent, Str(""), Str("1"), Str("abc"), Num("5")}
TypeFields == {Absent, Str("tool_error"), Str("tool_result")}

----------------------------------------------------------------------------
(* HTTP variant: src/cmd/sandbox/prelude.py *)

\* What urlopen can give: an HTTP error status, another exception, or a body
HttpBodies == {Dict(Absent, e, d) : e \in ErrorFields, d \in DataFields}
                  \cup {Malformed, NonDict}
HttpResponses == {[t |-> "httperror", body |-> Malformed], [t |-> "exc", body |-> Malformed]}
                     \cup {[t |-> "body", body |-> b] : b \in HttpBodies}

\* The answers given to the requests of the units of call_tools_parallel: an HTTP
\* error status, a body that is no JSON, a tool error, and two payloads
UnitResponses ==
    {[t |-> "httperror", body |-> Malformed], [t |-> "body", body |-> Malformed],
     [t |-> "body", body |-> Dict(Absent, Str("boom"), Absent)],
     [t |-> "body", body |-> Dict(Absent, Absent, Str("1"))],
     [t |-> "body", body |-> Dict(Absent, Str(""), Str("abc"))]}

\* call_tool, lines 57-61: the payload, re-parsed when it is a non-empty JSON text
HttpPayload(result) ==
    LET data == Get(result, "data", Str(""))
    IN  IF data.t = "str" /\ data.v # "" /\ Parses(data.v) THEN JsonLoads(data.v) ELSE data

\* call_tool, lines 53-55: `if result.get("error")`
HttpIsFailure(result) == Truthy(Get(result, "error", None))

\* call_tool, lines 42-61: from the transport's answer to the call's outcome
HttpDecode(name, rsp) ==
    CASE rsp.t = "httperror" -> Raise(Exc("RuntimeError", "HTTP", name, "status"))
      [] rsp.t = "exc" -> Raise(Exc("RuntimeError", "request failed", name, "exc"))
      [] rsp.body.shape = "malformed" -> Raise(Exc("JSONDecodeError", "", "", ""))
      [] rsp.body.shape = "nondict" -> Raise(Exc("AttributeError", "", "", ""))
      [] HttpIsFailure(rsp.body) ->
            Raise(Exc("RuntimeError", "failed", name, rsp.body.error.v))
      [] OTHER -> Return(HttpPayload(rsp.body))

\* call_tool, lines 28-29
ConfigError == Exc("RuntimeError", "no callback URL configured", "", "")

\* call_tool, line 28: `if not _CALLBACK_URL` is false
Configured_Always(url) == TRUE
Configured(url) == url # ""


\* `ev` while an operation is still in progress
Running == [op |-> "running"]

Pending == [kind |-> "pending", val |-> None, err |-> NoExc]

CallLists == UNION {[1..n -> ToolNames] : n \in 0..MaxCalls}

Datas == {Num("1"), Str("x")}
NoFiles == [given |-> FALSE, list |-> <<>>]
Files(l) == [given |-> TRUE, list |-> l]
FilesArgs == {NoFiles, Files(<<>>), Files(<<"chart.png">>)}

\* call_tool (HTTP), lines 19-61, called by the script's own thread
http_call_tool(name, rsp) ==
    /\ variant = "http" /\ mpc = "idle"
    /\ LET out == IF ~Configured(CALLBACK_URL) THEN Raise(ConfigError)
                  ELSE HttpDecode(name, rsp)
       IN  ev' = [op |-> "call_tool", name |-> name, rsp |-> rsp,
                  sent |-> Configured(CALLBACK_URL),
                  kind |-> out.kind, val |-> out.val, err |-> out.err]
    /\ UNCHANGED <<variant, final_result, output_files, CALLBACK_URL, call_id, cwd, path, mpc,
                   httpLocals, pipeChan>>

\* _worker, line 83: results[i] = call_tool(name, args)
StoreResult_Append(res, i, v) ==
    LET free == {j \in DOMAIN res : res[j] = None}
        slot == CHOOSE j \in free : \A j2 \in free : j <= j2
    IN  [res EXCEPT ![slot] = v]
StoreResult(res, i, v) == [res EXCEPT ![i] = v]

\* history of lines 81-85: the first unit to leave _worker
FirstDone(done, i) == IF done = <<>> THEN <<i>> ELSE done

\* _worker, line 85: errors[i] = exc
StoreError_Shared(errs, i, e) == [errs EXCEPT ![1] = e]
StoreError(errs, i, e) == [errs EXCEPT ![i] = e]

\* history of lines 83 and 85: the slots of `results` (of `errors`) that unit i's
\* store changes, found by storing a value the lists never hold
Mark == [t |-> "mark", v |-> ""]
RECURSIVE SlotWrites(_, _, _)
SlotWrites(i, arr, slots) ==
    IF slots = {} THEN <<>>
    ELSE LET j == CHOOSE x \in slots : \A y \in slots : x <= y
         IN  <<[unit |-> i, arr |-> arr, idx |-> j]>> \o SlotWrites(i, arr, slots \ {j})
\* the history keeps the stores grouped by unit, each unit's stores in their order
Record(ws, new) ==
    IF new = <<>> THEN ws
    ELSE LET n == Cardinality({m \in DOMAIN ws : ws[m].unit <= new[1].unit})
         IN  SubSeq(ws, 1, n) \o new \o SubSeq(ws, n + 1, Len(ws))
ResultWrites(res, i) ==
    SlotWrites(i, "results", {j \in DOMAIN res : StoreResult(res, i, Mark)[j] # res[j]})
ErrorWrites(errs, i) ==
    SlotWrites(i, "errors",
               {j \in DOMAIN errs : StoreError(errs, i, Exc("mark", "", "", ""))[j] # errs[j]})

\* lines 96-98: `for err in errors: if err is not None: raise err`
FirstError_Last(errs) ==
    LET bad == {i \in DOMAIN errs : errs[i] # NoExc}
    IN  errs[CHOOSE i \in bad : \A j \in bad : j <= i]
FirstError(errs) ==
    LET bad == {i \in DOMAIN errs : errs[i] # NoExc}
    IN  errs[CHOOSE i \in bad : \A j \in bad : i <= j]

HasError(errs) == \E i \in DOMAIN errs : errs[i] # NoExc

\* lines 93-94: t.join() returns once thread t has finished
Joined_NoWait(t) == wpc[t] # "new"
Joined(t) == wpc[t] = "done"

\* lines 96-100, once every thread is joined; the locals go out of scope
ParallelOutcome ==
    [op |-> "call_tools_parallel", calls |-> calls,
     kind |-> IF HasError(errors) THEN "raise" ELSE "return",
     vals |-> IF HasError(errors) THEN <<>> ELSE results,
     err |-> IF HasError(errors) THEN FirstError(errors) ELSE NoExc,
     units |-> wpc, produced |-> produced, attempted |-> attempted, finished |-> finished,
     writes |-> writes]

ClearLocals ==
    /\ calls' = <<>> /\ results' = <<>> /\ errors' = <<>> /\ wpc' = <<>>
    /\ k' = 0 /\ produced' = <<>> /\ attempted' = {} /\ finished' = <<>> /\ writes' = <<>>

\* call_tools_parallel (HTTP), lines 76-90: the lists and the threads are created
http_call_tools_parallel(cs) ==
    /\ variant = "http" /\ mpc = "idle"
    /\ IF Len(cs) = 0
       THEN /\ ev' = [op |-> "call_tools_parallel", calls |-> cs, kind |-> "return",
                      vals |-> <<>>, err |-> NoExc, units |-> <<>>, produced |-> <<>>,
                      attempted |-> {}, finished |-> <<>>, writes |-> <<>>]
            /\ UNCHANGED <<mpc, httpLocals>>
       ELSE /\ calls' = cs
            /\ results' = [i \in DOMAIN cs |-> None]
            /\ errors' = [i \in DOMAIN cs |-> NoExc]
            /\ wpc' = [i \in DOMAIN cs |-> "new"]
            /\ produced' = [i \in DOMAIN cs |-> Pending]
            /\ attempted' = {}
            /\ finished' = <<>>
            /\ writes' = <<>>
            /\ k' = 1
            /\ mpc' = "starting"
            /\ ev' = Running
    /\ UNCHANGED <<variant, final_result, output_files, CALLBACK_URL, call_id, cwd, path, pipeChan>>

\* lines 91-92: the loop `for t in threads` ends after the last thread
StartLoopDone_Early(n, cs) == n >= Len(cs) - 1
StartLoopDone(n, cs) == n = Len(cs)

\* lines 91-92: `for t in threads: t.start()`
http_thread_start ==
    /\ mpc = "starting"
    /\ wpc' = [wpc EXCEPT ![k] = "running"]
    /\ IF StartLoopDone(k, calls) THEN mpc' = "joining" /\ k' = 1
                         ELSE mpc' = mpc /\ k' = k + 1
    /\ UNCHANGED <<variant, final_result, output_files, CALLBACK_URL, call_id, cwd, path, ev,
                   calls, results, errors, produced, attempted, finished, writes, pipeChan>>

\* _worker -> call_tool, lines 28-43: the URL check, then the request goes out
http_worker_send(i) ==
    /\ mpc \in {"starting", "joining"}
    /\ i \in DOMAIN wpc /\ wpc[i] = "running"
    /\ IF ~Configured(CALLBACK_URL)
       THEN /\ errors' = StoreError(errors, i, ConfigError)
            /\ produced' = [produced EXCEPT ![i] = Raise(ConfigError)]
            /\ wpc' = [wpc EXCEPT ![i] = "done"]
            /\ finished' = FirstDone(finished, i)
            /\ writes' = Record(writes, ErrorWrites(errors, i))
            /\ UNCHANGED attempted
       ELSE /\ attempted' = attempted \cup {i}
            /\ wpc' = [wpc EXCEPT ![i] = "sent"]
            /\ UNCHANGED <<errors, produced, finished, writes>>
    /\ UNCHANGED <<variant, final_result, output_files, CALLBACK_URL, call_id, cwd, path, ev, mpc,
                   calls, results, k, pipeChan>>

\* _worker, lines 81-85: call_tool finishes; its value or its exception is stored
http_worker_recv(i, rsp) ==
    /\ mpc \in {"starting", "joining"}
    /\ i \in DOMAIN wpc /\ wpc[i] = "sent"
    /\ LET out == HttpDecode(calls[i], rsp)
       IN  /\ produced' = [produced EXCEPT ![i] = out]
           /\ IF out.kind = "raise"
              THEN /\ errors' = StoreError(errors, i, out.err)
                   /\ writes' = Record(writes, ErrorWrites(errors, i))
                   /\ UNCHANGED results
              ELSE /\ results' = StoreResult(results, i, out.val)
                   /\ writes' = Record(writes, ResultWrites(results, i))
                   /\ UNCHANGED errors
    /\ wpc' = [wpc EXCEPT ![i] = "done"]
    /\ finished' = FirstDone(finished, i)
    /\ UNCHANGED <<variant, final_result, output_files, CALLBACK_URL, call_id, cwd, path, ev, mpc,
                   calls, k, attempted, pipeChan>>

\* lines 93-100: `for t in threads: t.join()`, then the scan of `errors`
http_thread_join ==
    /\ mpc = "joining"
    /\ Joined(k)
    /\ IF k = Len(calls)
       THEN /\ ev' = ParallelOutcome
            /\ mpc' = "idle"
            /\ ClearLocals
       ELSE /\ k' = k + 1
            /\ UNCHANGED <<ev, mpc, calls, results, errors, wpc, produced, attempted, finished,
                           writes>>
    /\ UNCHANGED <<variant, final_result, output_files, CALLBACK_URL, call_id, cwd, path, pipeChan>>

\* set_result (HTTP), lines 119-120: `if files is not None: _output_files = list(files)`
NewOutputFiles(old, files) == IF files.given THEN files.list ELSE old

\* set_result (HTTP), line 118: `_final_result = data`
HttpStored(old, data) == data

\* set_result (HTTP), lines 103-120
http_set_result(data, files) ==
    /\ variant = "http" /\ mpc = "idle"
    /\ final_result' = HttpStored(final_result, data)
    /\ output_files' = NewOutputFiles(output_files, files)
    /\ ev' = [op |-> "set_result", data |-> data, files |-> files, before |-> final_result]
    /\ UNCHANGED <<variant, CALLBACK_URL, call_id, cwd, path, mpc, httpLocals, pipeChan>>

\* install_package, lines 123-142: pip runs as a child process
install_package(name, returncode) ==
    /\ variant = "http" /\ mpc = "idle"
    /\ ev' = [op |-> "spawn", entry |-> "install_package", spawned |-> TRUE,
              kind |-> IF returncode # 0 THEN "raise" ELSE "return",
              err |-> IF returncode # 0
                      THEN Exc("RuntimeError", "pip install failed", name, "stderr")
                      ELSE NoExc]
    /\ UNCHANGED <<variant, final_result, output_files, CALLBACK_URL, call_id, cwd, path, mpc,
                   httpLocals, pipeChan>>

----------------------------------------------------------------------------
(* Pipe variant: src/code/prelude.py, the protocol client *)

MaxBatch == 2       \* most per-call results in one batch response of the peer

\* lines 22 and 50: f"tc_{_call_id}"
Cid(n) == "tc_" \o ToString(n)

\* A response document that names the request it answers: its "id" key
WithId(doc, n) == [doc EXCEPT !.id = Str(Cid(n))]

\* One element of the "results" list of a batch response
RDoc(er, da) == [id |-> Absent, error |-> er, data |-> da]
RDocs == {RDoc(Absent, Str("1")), RDoc(Str("boom"), Absent), RDoc(Str(""), Str("abc"))}

\* One line read from _proto_in: "" at end-of-stream, else a JSON text
Line(sh, ty, er, da, rs) ==
    [shape |-> sh, id |-> Absent, type |-> ty, error |-> er, data |-> da, results |-> rs]
EOF == Line("eof", Absent, Absent, Absent, <<>>)
PipeLines ==
    {Line("dict", ty, er, da, <<>>) :
        ty \in TypeFields, er \in ErrorFields, da \in DataFields \ {Str("")}}
    \cup {Line("malformed", Absent, Absent, Absent, <<>>),
          Line("nondict", Absent, Absent, Absent, <<>>)}
    \cup {Line("dict", Absent, Absent, Absent, rs) :
              rs \in UNION {[1..n -> RDocs] : n \in 1..MaxBatch}}
    \cup {WithId(Line("dict", Str("tool_result"), Absent, Str("1"), <<>>), n) :
              n \in 1..MaxCallId}
    \cup {Line("dict", Absent, Absent, Absent, rs) :
              rs \in UNION {[1..n -> {WithId(RDoc(Absent, Str("1")), m) : m \in 1..MaxCallId}] :
                                n \in 1..MaxBatch}}

\* The call lists of the pipe variant: the names do not reach the decoding
PipeCallLists == {[i \in 1..n |-> "file_read"] : n \in 0..MaxCalls}

NoRequest == [op |-> "none", name |-> "", calls |-> <<>>, ids |-> <<>>]

\* lines 32-35 and 63-66: json.loads(x["data"]), falling back to x.get("data", "")
PipePayload(doc) ==
    IF doc.data = Absent THEN Str("")
    ELSE IF doc.data.t = "str" /\ Parses(doc.data.v) THEN JsonLoads(doc.data.v)
    ELSE doc.data

\* call_tool, line 30: `if resp.get("type") == "tool_error"`
PipeIsFailure(resp) == Get(resp, "type", None) = Str("tool_error")

\* call_tool (pipe), lines 26-35: from the line read to the call's outcome
PipeDecode_NoEofCheck(name, line) ==
    CASE line.shape \in {"eof", "malformed"} -> Raise(Exc("JSONDecodeError", "", "", ""))
      [] line.shape = "nondict" -> Raise(Exc("AttributeError", "", "", ""))
      [] line.type = Str("tool_error") /\ line.error # Absent ->
            Raise(Exc("RuntimeError", "failed", name, line.error.v))
      [] line.type = Str("tool_error") -> Raise(Exc("KeyError", "", "", "error"))
      [] OTHER -> Return(IF line.data = Absent THEN Str("") ELSE line.data)
PipeDecode(name, line) ==
    CASE line.shape = "eof" -> Raise(Exc("RuntimeError", "pipe closed", name, ""))
      [] line.shape = "malformed" -> Raise(Exc("JSONDecodeError", "", "", ""))
      [] line.shape = "nondict" -> Raise(Exc("AttributeError", "", "", ""))
      [] PipeIsFailure(line) ->
            IF line.error = Absent THEN Raise(Exc("KeyError", "", "", "error"))
            ELSE Raise(Exc("RuntimeError", "failed", name, line.error.v))
      [] OTHER -> Return(PipePayload(line))

\* call_tools_parallel (pipe), lines 59-66: one element of the returned list
PipeElement(r) ==
    IF Truthy(Get(r, "error", None))
    THEN [kind |-> "exception", val |-> None, err |-> Exc("RuntimeError", "failed", "", r.error.v)]
    ELSE [kind |-> "value", val |-> PipePayload(r), err |-> NoExc]

\* call_tools_parallel (pipe), lines 54-67: from the line read to the call's outcome
PipeBatchDecode(line) ==
    CASE line.shape = "eof" ->
            [kind |-> "raise", vals |-> <<>>, err |-> Exc("RuntimeError", "pipe closed", "", "")]
      [] line.shape = "malformed" ->
            [kind |-> "raise", vals |-> <<>>, err |-> Exc("JSONDecodeError", "", "", "")]
      [] line.shape = "nondict" ->
            [kind |-> "raise", vals |-> <<>>, err |-> Exc("AttributeError", "", "", "")]
      [] OTHER ->
            [kind |-> "return", err |-> NoExc,
             vals |-> [i \in DOMAIN line.results |-> PipeElement(line.results[i])]]

\* lines 21-22 and 49-50: the ids tc_<n> given to n calls, the counter being at c
NewIds_PerBatch(c, n) == [i \in 1..n |-> Cid(i)]
NewIds(c, n) == [i \in 1..n |-> Cid(c + i)]

\* call_tool (pipe), lines 20-25: the request line is written and flushed
pipe_call_tool(name) ==
    /\ variant = "pipe" /\ mpc = "idle"
    /\ call_id < MaxCallId
    /\ call_id' = call_id + 1
    /\ pending' = [op |-> "call_tool", name |-> name, calls |-> <<>>, ids |-> NewIds(call_id, 1)]
    /\ issued' = issued \o pending'.ids
    /\ nwritten' = nwritten + 1
    /\ mpc' = "reading"
    /\ ev' = Running
    /\ UNCHANGED <<variant, final_result, output_files, CALLBACK_URL, cwd, path, httpLocals,
                   inbound, peer_closed, nread>>

\* call_tools_parallel (pipe), lines 51-53: one json.dumps, one write, for the batch
WriteBatch_PerCall(n, cs) == n + Len(cs)
WriteBatch(n, cs) == n + 1

\* call_tools_parallel (pipe), lines 46-53: one request line for the whole batch
pipe_call_tools_parallel(cs) ==
    /\ variant = "pipe" /\ mpc = "idle"
    /\ call_id + Len(cs) <= MaxCallId /\ nwritten < MaxCallId
    /\ call_id' = call_id + Len(cs)
    /\ pending' = [op |-> "call_tools_parallel", name |-> "", calls |-> cs,
                   ids |-> NewIds(call_id, Len(cs))]
    /\ issued' = issued \o pending'.ids
    /\ nwritten' = WriteBatch(nwritten, cs)
    /\ mpc' = "reading"
    /\ ev' = Running
    /\ UNCHANGED <<variant, final_result, output_files, CALLBACK_URL, cwd, path, httpLocals,
                   inbound, peer_closed, nread>>

\* The agent at the other end of the pipe answers the outstanding request
peer_send(line) ==
    /\ variant = "pipe" /\ mpc = "reading"
    /\ ~peer_closed /\ inbound = <<>>
    /\ inbound' = <<line>>
    /\ UNCHANGED <<variant, final_result, output_files, CALLBACK_URL, call_id, cwd, path, ev, mpc,
                   httpLocals, pending, peer_closed, nwritten, nread, issued>>

\* The agent closes its end of the pipe
peer_close ==
    /\ variant = "pipe" /\ ~peer_closed
    /\ peer_closed' = TRUE
    /\ UNCHANGED <<variant, final_result, output_files, CALLBACK_URL, call_id, cwd, path, ev, mpc,
                   httpLocals, pending, inbound, nwritten, nread, issued>>

\* lines 26 and 54: _proto_in.readline() returns a line, or "" once the peer has closed
ReadReady == inbound # <<>> \/ peer_closed
ReadLine == IF inbound # <<>> THEN Head(inbound) ELSE EOF

\* call_tool lines 26-35 and call_tools_parallel lines 54-67: read one line and decode it
pipe_read ==
    /\ variant = "pipe" /\ mpc = "reading"
    /\ ReadReady
    /\ LET line == ReadLine
       IN  IF pending.op = "call_tool"
           THEN LET out == PipeDecode(pending.name, line)
                IN  ev' = [op |-> "call_tool", name |-> pending.name, rsp |-> line,
                           ids |-> pending.ids, sent |-> TRUE,
                           kind |-> out.kind, val |-> out.val, err |-> out.err]
           ELSE LET out == PipeBatchDecode(line)
                IN  ev' = [op |-> "call_tools_parallel", calls |-> pending.calls,
                           rsp |-> line, ids |-> pending.ids,
                           kind |-> out.kind, vals |-> out.vals, err |-> out.err]
    /\ inbound' = IF inbound # <<>> THEN Tail(inbound) ELSE inbound
    /\ nread' = nread + 1
    /\ pending' = NoRequest
    /\ mpc' = "idle"
    /\ UNCHANGED <<variant, final_result, output_files, CALLBACK_URL, call_id, cwd, path,
                   httpLocals, peer_closed, nwritten, issued>>

\* set_result (pipe), line 76: `_final_result = data`
PipeStored_KeepFirst(old, data) == IF old = None THEN data ELSE old
PipeStored(old, data) == data

\* set_result (pipe), lines 69-76
pipe_set_result(data) ==
    /\ variant = "pipe" /\ mpc = "idle"
    /\ final_result' = PipeStored(final_result, data)
    /\ ev' = [op |-> "set_result", data |-> data, files |-> NoFiles, before |-> final_result]
    /\ UNCHANGED <<variant, output_files, CALLBACK_URL, call_id, cwd, path, mpc, httpLocals,
                   pipeChan>>

----------------------------------------------------------------------------
(* Pipe variant: src/code/prelude.py, the workspace guards *)

\* Paths are strings: sequences of characters, "/" being os.sep
Sep == "/"
Pardir == <<".", ".">>

\* The file system the script runs in:
\*   /w        the workspace (a directory)       /w/a   a file in it
\*   /w/l      a symbolic link to /wx            /wx    a sibling directory
\*   /a        a file outside
Workspace == <<Sep, "w">>
SegNames == {<<"w">>, <<"w", "x">>, <<"a">>, <<"l">>, Pardir}
IsLink(segs) == segs = << <<"w">>, <<"l">> >>
ReadLink(segs) == << <<"w", "x">> >>
Cwds == {Workspace, <<Sep>>}

RECURSIVE JoinSegs(_)
JoinSegs(segs) ==
    IF Len(segs) = 0 THEN <<>>
    ELSE IF Len(segs) = 1 THEN segs[1]
    ELSE segs[1] \o <<Sep>> \o JoinSegs(Tail(segs))

\* The paths user code passes to the guards
PathInputs ==
    {(IF ab THEN <<Sep>> ELSE <<>>) \o JoinSegs(ss) :
        ab \in BOOLEAN, ss \in UNION {[1..n -> SegNames] : n \in 0..MaxSegs}}
FdInputs == {0, 1, 2}

\* The paths of a script that also talks to the agent
PathSamples == {p \in PathInputs : Len(p) <= 2 /\ p # <<>> /\ p[Len(p)] = "a"}

\* str.split(os.sep)
RECURSIVE SplitFrom(_, _, _)
SplitFrom(s, i, cur) ==
    IF i > Len(s) THEN <<cur>>
    ELSE IF s[i] = Sep THEN <<cur>> \o SplitFrom(s, i + 1, <<>>)
    ELSE SplitFrom(s, i + 1, Append(cur, s[i]))
Split(s) == SplitFrom(s, 1, <<>>)

\* str.startswith
StartsWith(s, prefix) ==
    /\ Len(prefix) <= Len(s)
    /\ SubSeq(s, 1, Len(prefix)) = prefix

IsAbs(s) == Len(s) > 0 /\ s[1] = Sep

\* os.path.join(a, b) for two parts
OsPathJoin(a, b) ==
    IF IsAbs(b) THEN b
    ELSE IF a = <<>> \/ a[Len(a)] = Sep THEN a \o b
    ELSE a \o <<Sep>> \o b

\* os.path.realpath walking the components: "" and "." are skipped, ".." drops the
\* last resolved component, a symbolic link is replaced by its resolved target
RECURSIVE JoinRealPath(_, _)
JoinRealPath(acc, rest) ==
    IF rest = <<>> THEN acc
    ELSE LET name == Head(rest)
             newpath == Append(acc, name)
         IN  IF name = <<>> \/ name = <<".">> THEN JoinRealPath(acc, Tail(rest))
             ELSE IF name = Pardir
                  THEN JoinRealPath(IF acc = <<>> THEN acc
                                    ELSE SubSeq(acc, 1, Len(acc) - 1), Tail(rest))
             ELSE IF IsLink(newpath)
                  THEN JoinRealPath(JoinRealPath(<<>>, ReadLink(newpath)), Tail(rest))
             ELSE JoinRealPath(newpath, Tail(rest))

\* os.path.realpath(s): a relative path is resolved from the current directory `dir`
RealPath(dir, s) ==
    LET full == IF IsAbs(s) THEN s ELSE OsPathJoin(dir, s)
    IN  <<Sep>> \o JoinSegs(JoinRealPath(<<>>, Split(full)))

PermissionError(text) == Exc("PermissionError", text, "", "")

\* _safe_open, line 91
OpenResolved(dir, p) == RealPath(dir, OsPathJoin(Workspace, p))

\* _safe_open, line 92: the path may be opened
OpenAllowed_NoSep(resolved) == StartsWith(resolved, Workspace)
OpenAllowed(resolved) ==
    StartsWith(resolved, Workspace \o <<Sep>>) \/ resolved = Workspace

\* _safe_rmtree, line 102
RmtreeResolved(dir, p) == RealPath(dir, p)

\* _safe_rmtree, lines 103-106: the tree may be removed
RmtreeAllowed_AsOpen(resolved) == OpenAllowed(resolved)
RmtreeAllowed(resolved) ==
    /\ StartsWith(resolved, Workspace \o <<Sep>>)
    /\ resolved # Workspace

\* _safe_remove and _safe_rmdir, lines 116-117 and 121-122
DeleteResolved(dir, p) == RealPath(dir, OsPathJoin(Workspace, p))
DeleteAllowed(resolved) == StartsWith(resolved, Workspace \o <<Sep>>)

NoCall == [fn |-> "none", arg |-> <<>>]
Underlying(fn, arg) == [fn |-> fn, arg |-> arg]

GuardEvent(op, p, resolved, allowed, fn, text) ==
    [op |-> op, isfd |-> FALSE, path |-> p, resolved |-> resolved,
     kind |-> IF allowed THEN "delegated" ELSE "raise",
     err |-> IF allowed THEN NoExc ELSE PermissionError(text),
     underlying |-> IF allowed THEN Underlying(fn, resolved) ELSE NoCall]

guardFrame == <<variant, final_result, output_files, CALLBACK_URL, call_id, cwd, path, mpc,
                httpLocals, pipeChan>>

\* _safe_open, lines 87-94, with the path
safe_open ==
    /\ variant = "pipe" /\ mpc = "idle"
    /\ LET resolved == OpenResolved(cwd, path)
       IN  ev' = GuardEvent("open", path, resolved, OpenAllowed(resolved),
                            "_builtin_open", "outside workspace")
    /\ UNCHANGED guardFrame

\* _safe_open, lines 89-90, with an integer file descriptor
safe_open_fd(fd) ==
    /\ variant = "pipe" /\ mpc = "idle"
    /\ ev' = [op |-> "open", isfd |-> TRUE, path |-> <<>>, resolved |-> <<>>, fd |-> fd,
              kind |-> "delegated", err |-> NoExc,
              underlying |-> Underlying("_builtin_open", <<>>)]
    /\ UNCHANGED guardFrame

\* _safe_rmtree, lines 101-107
safe_rmtree ==
    /\ variant = "pipe" /\ mpc = "idle"
    /\ LET resolved == RmtreeResolved(cwd, path)
       IN  ev' = GuardEvent("rmtree", path, resolved, RmtreeAllowed(resolved),
                            "_original_rmtree", "cannot delete")
    /\ UNCHANGED guardFrame

\* _safe_remove, lines 115-119
safe_remove ==
    /\ variant = "pipe" /\ mpc = "idle"
    /\ LET resolved == DeleteResolved(cwd, path)
       IN  ev' = GuardEvent("remove", path, resolved, DeleteAllowed(resolved),
                            "_original_remove", "cannot delete")
    /\ UNCHANGED guardFrame

\* _safe_rmdir, lines 120-124
safe_rmdir ==
    /\ variant = "pipe" /\ mpc = "idle"
    /\ LET resolved == DeleteResolved(cwd, path)
       IN  ev' = GuardEvent("rmdir", path, resolved, DeleteAllowed(resolved),
                            "_original_rmdir", "cannot delete")
    /\ UNCHANGED guardFrame

\* lines 85, 100, 113, 114: the globals in which the prelude keeps the functions it
\* replaces; user code runs below line 140 of the same module and sees them
SavedOriginals == {"_builtin_open", "_original_rmtree", "_original_remove", "_original_rmdir"}

\* user code calls one of the saved functions with its path: no check runs, and the
\* operating system resolves the path from the current directory
call_saved(fn) ==
    /\ variant = "pipe" /\ mpc = "idle"
    /\ ev' = [op |-> "saved", isfd |-> FALSE, path |-> path, resolved |-> RealPath(cwd, path),
              kind |-> "delegated", err |-> NoExc, underlying |-> Underlying(fn, path)]
    /\ UNCHANGED guardFrame

\* os.chdir is not one of the guarded functions
chdir(dir) ==
    /\ variant = "pipe" /\ mpc = "idle"
    /\ cwd' = dir
    /\ ev' = [op |-> "chdir"]
    /\ UNCHANGED <<variant, final_result, output_files, CALLBACK_URL, call_id, path, mpc,
                   httpLocals, pipeChan>>

\* lines 129-138: the names the prelude rebinds to a function that raises
Stubbed == {"os.system", "subprocess.run", "subprocess.Popen", "subprocess.call",
            "subprocess.check_output", "subprocess.check_call"}
\* ways of starting a process that user code can name
SpawnEntries == Stubbed \cup {"os.posix_spawn", "os.execv"}

\* lines 128-138: what a call through `entry` does once the prelude has run
SpawnOutcome(entry) ==
    CASE entry \in Stubbed ->
            [kind |-> "raise", err |-> PermissionError("blocked"), spawned |-> FALSE]
      [] OTHER -> [kind |-> "return", err |-> NoExc, spawned |-> TRUE]

\* user code calls a process-spawning function
spawn(entry) ==
    /\ variant = "pipe" /\ mpc = "idle"
    /\ LET out == SpawnOutcome(entry)
       IN  ev' = [op |-> "spawn", entry |-> entry, spawned |-> out.spawned,
                  kind |-> out.kind, err |-> out.err]
    /\ UNCHANGED guardFrame

----------------------------------------------------------------------------
(* The two programs *)

InitWith(paths) ==
    /\ variant \in {"pipe", "http"}
    /\ path \in IF variant = "pipe" THEN paths ELSE {<<>>}
    /\ final_result = None
    /\ output_files = <<>>
    /\ CALLBACK_URL \in IF variant = "http" THEN {"", "http://agent/callback"} ELSE {""}
    /\ call_id = 0
    /\ cwd \in IF variant = "pipe" THEN Cwds ELSE {Workspace}
    /\ ev = [op |-> "none"]
    /\ mpc = "idle"
    /\ calls = <<>> /\ results = <<>> /\ errors = <<>> /\ wpc = <<>>
    /\ k = 0 /\ produced = <<>> /\ attempted = {} /\ finished = <<>> /\ writes = <<>>
    /\ pending = NoRequest
    /\ inbound = <<>>
    /\ peer_closed = FALSE
    /\ nwritten = 0
    /\ nread = 0
    /\ issued = <<>>

Init == InitWith(PathSamples)

NextHttp ==
    \/ \E name \in ToolNames, rsp \in HttpResponses : http_call_tool(name, rsp)
    \/ \E cs \in CallLists : http_call_tools_parallel(cs)
    \/ http_thread_start
    \/ \E i \in 1..(MaxCalls + 1) : http_worker_send(i)
    \/ \E i \in 1..(MaxCalls + 1), rsp \in UnitResponses : http_worker_recv(i, rsp)
    \/ http_thread_join
    \/ \E data \in Datas, files \in FilesArgs : http_set_result(data, files)
    \/ \E name \in {"httpx"}, rc \in {0, 1} : install_package(name, rc)

NextCode ==
    \/ \E name \in ToolNames : pipe_call_tool(name)
    \/ \E cs \in PipeCallLists : pipe_call_tools_parallel(cs)
    \/ \E line \in PipeLines : peer_send(line)
    \/ peer_close
    \/ pipe_read
    \/ \E data \in Datas : pipe_set_result(data)
    \/ safe_open
    \/ \E fd \in FdInputs : safe_open_fd(fd)
    \/ safe_rmtree
    \/ safe_remove
    \/ safe_rmdir
    \/ \E fn \in SavedOriginals : call_saved(fn)
    \/ \E dir \in Cwds : chdir(dir)
    \/ \E entry \in SpawnEntries : spawn(entry)

NextGuard ==
    \/ safe_open
    \/ \E fd \in FdInputs : safe_open_fd(fd)
    \/ safe_rmtree
    \/ safe_remove
    \/ safe_rmdir
    \/ \E fn \in SavedOriginals : call_saved(fn)
    \/ \E dir \in Cwds : chdir(dir)
    \/ \E entry \in SpawnEntries : spawn(entry)

Next == NextCode \/ NextHttp

Spec == Init /\ [][Next]_vars

\* src/cmd/sandbox/prelude.py alone
InitHttp == Init /\ variant = "http"
SpecHttp == InitHttp /\ [][NextHttp]_vars

\* A step of a call_tools_parallel in progress: of the calling thread in its loops
\* (lines 91-94) or of a unit, whose request is answered by a response, an error or
\* the 120 s timeout of urlopen (line 43)
ParallelStep ==
    \/ http_thread_start
    \/ \E i \in 1..(MaxCalls + 1) : http_worker_send(i)
    \/ \E i \in 1..(MaxCalls + 1), rsp \in UnitResponses : http_worker_recv(i, rsp)
    \/ http_thread_join

\* src/cmd/sandbox/prelude.py under fair scheduling: while some thread of a
\* call_tools_parallel can take a step, one of them eventually does. Fair scheduling
\* of each thread implies this
FairHttp == WF_vars(ParallelStep)
SpecHttpFair == SpecHttp /\ FairHttp

\* src/code/prelude.py alone
InitCode == Init /\ variant = "pipe"
SpecCode == InitCode /\ [][NextCode]_vars

\* The guards of src/code/prelude.py, over every path of the bounded set
InitGuard == InitWith(PathInputs) /\ variant = "pipe"
SpecGuard == InitGuard /\ [][NextGuard]_vars

----------------------------------------------------------------------------
(* Properties of call_tools_parallel, HTTP variant *)

HttpParallelDone == variant = "http" /\ ev.op = "call_tools_parallel"

\* C1: a call_tools_parallel (HTTP) that returns gives a list as long as the call
\* list, whose entry i is the value call_tool produced inside unit i, whatever the
\* order in which the units finished.
C1_ResultsInInputOrder ==
    (HttpParallelDone /\ ev.kind = "return") =>
        /\ Len(ev.vals) = Len(ev.calls)
        /\ \A i \in 1..Len(ev.calls) :
              /\ ev.produced[i].kind = "return"
              /\ ev.vals[i] = ev.produced[i].val

\* C1 witness: two units returned different values, the second finishing first
C1_Witness ==
    /\ HttpParallelDone /\ ev.kind = "return"
    /\ Len(ev.calls) = 2 /\ ev.finished = <<2>>
    /\ ev.vals[1] # ev.vals[2]
    /\ ev.calls[1] # ev.calls[2]

\* C2: when a unit of call_tools_parallel (HTTP) has failed the call raises, and
\* whenever the call hands control back every unit has terminated: its thread is
\* finished and its success or failure is recorded.
C2_RaisesAfterAllUnitsEnd ==
    HttpParallelDone =>
        /\ \A i \in DOMAIN ev.units :
              ev.units[i] = "done" /\ ev.produced[i].kind \in {"return", "raise"}
        /\ DOMAIN ev.units = DOMAIN ev.calls
        /\ (\E i \in DOMAIN ev.produced : ev.produced[i].kind = "raise") => ev.kind = "raise"

\* C2 witness: unit 1 failed first, unit 2 then succeeded, and the call raised
C2_Witness ==
    /\ HttpParallelDone /\ ev.kind = "raise"
    /\ Len(ev.calls) = 2 /\ ev.finished = <<1>>
    /\ ev.produced[1].kind = "raise"
    /\ ev.produced[2].kind = "return"

----------------------------------------------------------------------------
(* Properties of the workspace guards *)

Inside(r) == r = Workspace \/ StartsWith(r, Workspace \o <<Sep>>)
Sibling == <<Sep, "w", "x">>

C5_InsideRemoved ==
    /\ ev.op = "rmtree"
    /\ ev.underlying = Underlying("_original_rmtree", <<Sep, "w", Sep, "a">>)

\* C6: with the guards installed, every attempt of user code to start a process,
\* through any entry point, raises PermissionError and starts no process.
C6_SpawnAlwaysDenied ==
    (variant = "pipe" /\ ev.op = "spawn") =>
        /\ ev.kind = "raise" /\ ev.err.cls = "PermissionError"
        /\ ~ev.spawned

----------------------------------------------------------------------------
(* Properties of call_tool and of the result sink *)

\* The response document call_tool received
RspDoc == IF variant = "http" THEN ev.rsp.body ELSE ev.rsp
GotDocument ==
    /\ ev.op = "call_tool" /\ ev.sent
    /\ variant = "http" => ev.rsp.t = "body"
    /\ RspDoc.shape = "dict"
DocHasError(doc) == doc.error # Absent /\ doc.error.t = "str" /\ doc.error.v # ""

\* C7: in both variants, a response document with a non-empty error field makes
\* call_tool raise a failure carrying that text and the tool name, and call_tool
\* returns a payload only for a response without a non-empty error field.
C7_ErrorFieldRaises ==
    (GotDocument /\ DocHasError(RspDoc)) =>
        /\ ev.kind = "raise"
        /\ ev.err.text = RspDoc.error.v
        /\ ev.err.tool = ev.name

\* C7, HTTP variant alone
C7_HttpErrorFieldRaises == variant = "http" => C7_ErrorFieldRaises

\* C8: in the pipe variant a read that meets end-of-stream ends call_tool and
\* call_tools_parallel by raising the pipe-closed failure, never by returning a
\* value, and a script waiting for its answer is never blocked once the peer has
\* closed: the read can complete.
C8_EofRaises ==
    /\ (variant = "pipe" /\ ev.op \in {"call_tool", "call_tools_parallel"}
            /\ ev.rsp.shape = "eof") =>
          /\ ev.kind = "raise"
          /\ ev.err.cls = "RuntimeError" /\ ev.err.kind = "pipe closed"
    /\ (variant = "pipe" /\ mpc = "reading" /\ peer_closed) => ENABLED pipe_read

\* C8 witness: a batch of two calls was answered by the peer closing the pipe
C8_Witness ==
    /\ variant = "pipe" /\ ev.op = "call_tools_parallel"
    /\ Len(ev.calls) = 2
    /\ ev.rsp = EOF
    /\ ev.kind = "raise"

\* C9: the sink starts absent, a set_result leaves in it the value it was given, and
\* no other step (tool call, guard, peer or thread step) changes it.
C9_LastWriteWins ==
    /\ final_result = None
    /\ [][IF ev'.op = "set_result" THEN final_result' = ev'.data
                                   ELSE final_result' = final_result]_vars

\* C9 witness: a second set_result replaced a different value stored by the first
C9_Witness ==
    /\ ev.op = "set_result"
    /\ ev.before # None /\ ev.before # ev.data
    /\ final_result = ev.data

\* C10: after a set_result (HTTP) the output-files list is the list given to that
\* call, and is empty when that call gave none.
C10_FilesOverwritten ==
    (variant = "http" /\ ev.op = "set_result") =>
        output_files = (IF ev.files.given THEN ev.files.list ELSE <<>>)

----------------------------------------------------------------------------
(* Properties of call_tools_parallel, pipe variant *)

PipeBatchDone == variant = "pipe" /\ ev.op = "call_tools_parallel"

\* C11: a call_tools_parallel (pipe) that returns gives a list with exactly one entry
\* per call of its call list, entry i decoded from the i-th per-call result; a
\* response with fewer or more results than calls is not returned.
C11_BatchLengthMatches ==
    (PipeBatchDone /\ ev.kind = "return") =>
        /\ Len(ev.vals) = Len(ev.calls)
        /\ Len(ev.rsp.results) = Len(ev.calls)
        /\ \A i \in 1..Len(ev.calls) : ev.vals[i] = PipeElement(ev.rsp.results[i])

\* C12: when a per-call result of the batch response carries a non-empty error,
\* call_tools_parallel (pipe) raises a tool failure, and a list it returns has no
\* failure among its elements.
C12_BatchErrorRaises ==
    /\ (PipeBatchDone /\ ev.rsp.shape = "dict"
            /\ \E i \in DOMAIN ev.rsp.results : DocHasError(ev.rsp.results[i])) =>
          ev.kind = "raise" /\ ev.err.cls = "RuntimeError" /\ ev.err.kind = "failed"
    /\ (PipeBatchDone /\ ev.kind = "return") =>
          \A i \in DOMAIN ev.vals : ev.vals[i].kind # "exception"

\* C13: the correlation ids put in the requests of one execution, by call_tool and
\* by call_tools_parallel, are pairwise distinct, within a batch and across
\* operations, and the counter _call_id never decreases.
C13_IdsDistinct ==
    /\ [](\A i, j \in DOMAIN issued : i # j => issued[i] # issued[j])
    /\ [][call_id' >= call_id]_vars

\* C13 witness: two operations, a call_tool among them, have put two ids in requests
C13_Witness ==
    /\ variant = "pipe" /\ nwritten = 2 /\ Len(issued) = 2
    /\ ev.op = "call_tool" /\ ev.ids = <<issued[2]>>

\* The ids a response document names: its own "id" and those of its per-call results
Named(doc) == doc.id # Absent
Unmatched(doc, ids) == Named(doc) /\ \A i \in DOMAIN ids : doc.id # Str(ids[i])

\* C14: a response naming an id that is not the id of the outstanding request (so
\* also one repeating the id of a request answered earlier), or a batch response
\* naming the same id in two results, is a protocol error: the operation raises and
\* does not return the response's payload.
C14_IdMismatchRejected ==
    /\ (variant = "pipe" /\ ev.op = "call_tool" /\ ev.rsp.shape = "dict"
            /\ Unmatched(ev.rsp, ev.ids)) => ev.kind = "raise"
    /\ (PipeBatchDone /\ ev.rsp.shape = "dict"
            /\ \/ \E i \in DOMAIN ev.rsp.results : Unmatched(ev.rsp.results[i], ev.ids)
               \/ \E i, j \in DOMAIN ev.rsp.results :
                     /\ i # j /\ Named(ev.rsp.results[i])
                     /\ ev.rsp.results[i].id = ev.rsp.results[j].id) => ev.kind = "raise"

----------------------------------------------------------------------------
(* Properties of the HTTP variant without a callback URL *)

----------------------------------------------------------------------------
(* Properties of the guards as a whole *)

FileOps == {"open", "rmtree", "remove", "rmdir", "saved"}

\* C16: once the guards are installed, whatever user code calls, an underlying open,
\* remove, rmdir or rmtree that runs on a path runs on a path inside the workspace.
C16_GuardNotUndoable ==
    (variant = "pipe" /\ ev.op \in FileOps /\ ~ev.isfd /\ ev.underlying # NoCall) =>
        Inside(RealPath(cwd, ev.underlying.arg))

\* The path the claims' resolution gives: joined to the workspace root unless
\* absolute, then resolved, whatever the current directory
JoinedResolved(p) == RealPath(<<Sep>>, IF IsAbs(p) THEN p ELSE Workspace \o <<Sep>> \o p)

\* C17: guarded os.remove, os.rmdir and shutil.rmtree resolve their path as guarded
\* open does, a non-absolute path being joined to the workspace root whatever the
\* current directory, and when the resolved path is outside the workspace they raise
\* PermissionError and the underlying deletion does not run.
C17_DeleteResolvesLikeOpen ==
    (ev.op \in {"remove", "rmdir", "rmtree"}) =>
        /\ ev.resolved = JoinedResolved(path)
        /\ ~Inside(JoinedResolved(path)) =>
              /\ ev.kind = "raise" /\ ev.err.cls = "PermissionError"
              /\ ev.underlying = NoCall

\* C17, for os.remove and os.rmdir alone
C17_RemoveRmdirResolveLikeOpen ==
    (ev.op \in {"remove", "rmdir"}) => C17_DeleteResolvesLikeOpen

\* C17, second half alone: no guarded deletion runs when the path, joined to the
\* root and resolved, is outside the workspace
C17_NoDeletionOutside ==
    (ev.op \in {"remove", "rmdir", "rmtree"} /\ ~Inside(JoinedResolved(path))) =>
        ev.underlying = NoCall

----------------------------------------------------------------------------
(* Properties of the threads of call_tools_parallel, HTTP variant *)

\* The stores and the threads of the call_tools_parallel in progress, or of the one
\* that has just handed control back
InParallel == variant = "http" /\ mpc \in {"starting", "joining"}
CurWrites == IF InParallel THEN writes ELSE IF HttpParallelDone THEN ev.writes ELSE <<>>
CurUnits == IF InParallel THEN wpc ELSE IF HttpParallelDone THEN ev.units ELSE <<>>
WritesAt(i, arr) ==
    {n \in DOMAIN CurWrites : CurWrites[n].arr = arr /\ CurWrites[n].idx = i}

\* C18: in every interleaving of call_tools_parallel (HTTP), a store of unit i goes to
\* index i of `results` or of `errors`, no slot of either list is stored to twice,
\* a unit that has terminated has stored to exactly one of results[i] and errors[i]
\* and a unit that has not has stored to neither, and when the calling thread reads
\* the lists every unit is finished and joined.
C18_DisjointSlots ==
    /\ \A n \in DOMAIN CurWrites : CurWrites[n].idx = CurWrites[n].unit
    /\ \A n, m \in DOMAIN CurWrites :
          (CurWrites[n].arr = CurWrites[m].arr /\ CurWrites[n].idx = CurWrites[m].idx) => n = m
    /\ \A i \in DOMAIN CurUnits :
          Cardinality(WritesAt(i, "results")) + Cardinality(WritesAt(i, "errors"))
              = IF CurUnits[i] = "done" THEN 1 ELSE 0
    /\ HttpParallelDone => \A i \in DOMAIN ev.calls : ev.units[i] = "done"

\* C18 witness: of two units the second stored its error first, then the first stored
\* its result, and the call has handed control back
C18_Witness ==
    /\ HttpParallelDone /\ Len(ev.calls) = 2 /\ ev.finished = <<2>>
    /\ ev.writes = <<[unit |-> 1, arr |-> "results", idx |-> 1],
                     [unit |-> 2, arr |-> "errors", idx |-> 2]>>

\* C19: under fair scheduling, the transport answering every unit, a
\* call_tools_parallel in progress eventually hands control back, returning or
\* raising; it hands control back only when every unit has terminated, so every unit
\* that was started has run to its end; and while it is in progress no started unit
\* goes back to unstarted.
C19_JoinAllTerminates ==
    /\ InParallel ~> (HttpParallelDone /\ ev.kind \in {"return", "raise"})
    /\ [][(InParallel /\ ~InParallel') =>
             /\ HttpParallelDone'
             /\ \A i \in DOMAIN wpc : wpc[i] = "done"]_vars
    /\ [][(InParallel /\ InParallel') =>
             \A i \in DOMAIN wpc : wpc[i] # "new" => wpc'[i] # "new"]_vars

\* C19 witness: with a callback URL, two units were answered, the first terminating
\* first, and the call returned
C19_Witness ==
    /\ HttpParallelDone /\ CALLBACK_URL # ""
    /\ Len(ev.calls) = 2 /\ ev.finished = <<1>> /\ ev.attempted = {1, 2}
    /\ ev.kind = "return"

----------------------------------------------------------------------------
(* Properties of the pipe streams *)

PipeOpStarts == mpc = "idle" /\ mpc' = "reading"
PipeOpEnds == mpc = "reading" /\ mpc' = "idle"

\* C20: call_tool and call_tools_parallel (pipe), whatever the length of the call
\* list, write one request line when they start and read one line when they end, and
\* nothing else writes or reads; so the lines read never exceed the lines written,
\* exactly one line is outstanding while an operation waits, and the two counts are
\* equal when the script is between operations, in particular after a return.
C20_OneWriteOneRead ==
    /\ [](variant = "pipe" =>
            /\ nread <= nwritten
            /\ mpc = "reading" => nwritten = nread + 1
            /\ mpc = "idle" => nwritten = nread
            /\ (ev.op \in {"call_tool", "call_tools_parallel"} /\ ev.kind = "return") =>
                  nwritten = nread)
    /\ [][variant = "pipe" =>
            IF PipeOpStarts THEN nwritten' = nwritten + 1 /\ nread' = nread
            ELSE IF PipeOpEnds THEN nread' = nread + 1 /\ nwritten' = nwritten
            ELSE nwritten' = nwritten /\ nread' = nread]_vars

\* C20 witness: a batch of two calls, the second operation of the script, returned
\* after one request line and one response line of its own
C20_Witness ==
    /\ PipeBatchDone /\ Len(ev.calls) = 2 /\ ev.kind = "return" /\ Len(ev.vals) = 2
    /\ nwritten = 2 /\ nread = 2

====
